---- MODULE Spec2Model ----
(***************************************************************************)
(* A model of the first-fit allocator of src/mymalloc.c: the Heap          *)
(* singleton _h, the block headers embedded in the arena, and the three    *)
(* entry points mymalloc, myfree and reset_heap.                           *)
(*                                                                         *)
(* Representation of size_t / uintptr_t.  The program computes modulo      *)
(* 2^64.  A 64-bit value v is represented by the integer congruent to v    *)
(* modulo 2^64 that lies in [-2^63, 2^63): 2^64 - 8 is written -8.  On     *)
(* these representatives + and - are the machine's wrapping + and -, the   *)
(* masks x & ~(2^k - 1) are x - (x % 2^k), and the unsigned order is ULess *)
(* below.  Every value the model computes has a magnitude far below 2^31.  *)
(***************************************************************************)
EXTENDS Integers, FiniteSets, Sequences, TLC

VARIABLES
    h,            \* the Heap singleton _h: size, available_size, start_of_heap
    mem,          \* the words written so far: address -> value of hdr.next
    status,       \* "run", or how the process ended: "abort", "segv", "hang"
    NDEBUG,       \* whether the build compiles assert() away
    last,         \* the last call: [op, arg, ret]
    live,         \* the caller's live allocations: records [p, n]
    fpsum,        \* sum of the padded footprints of the successful mymalloc calls
    onlyMallocs,  \* every call so far was a mymalloc call
    nalloc,       \* number of successful mymalloc calls
    phase,        \* position of the reuse scenario (test1)
    scn           \* the reuse scenario's parameters and the pointers it got

vars == <<h, mem, status, NDEBUG, last, live, fpsum, onlyMallocs, nalloc, phase, scn>>

----------------------------------------------------------------------------
(* Program constants *)

NULL == 0

MY_ALIGNMENT_SZ == 8

IN_USE_BIT == 1

\* sizeof(allocHdr): one pointer of an LP64 build
SZ_BLOCK_METADATA == 8

\* h->size = h->available_size = 4096
HEAP_SIZE == 4096

----------------------------------------------------------------------------
(* Bounds of the model *)

\* successful mymalloc calls in one run
MaxAllocs == 3

\* blocks allocated in the reuse scenario
MaxK == 4

\* addresses sbrk may return (8-aligned program breaks)
SbrkAddrs == {4096, 8200}

\* request sizes: small ones, ones that fill the arena, one above it, and
\* ones whose footprint computation wraps modulo 2^64 (-k stands for 2^64 - k)
PlainSizes == {0, 10, 2000,
               HEAP_SIZE - 2 * SZ_BLOCK_METADATA,
               HEAP_SIZE - SZ_BLOCK_METADATA}

WrapSizes == {-SZ_BLOCK_METADATA, -2 * SZ_BLOCK_METADATA, -3 * SZ_BLOCK_METADATA}

Sizes == PlainSizes \cup WrapSizes

----------------------------------------------------------------------------
(* Unsigned 64-bit order on the representatives *)

ULess(a, b) == IF (a >= 0) = (b >= 0) THEN a < b ELSE a >= 0

ULeq(a, b) == a = b \/ ULess(a, b)

----------------------------------------------------------------------------
(* The macros of mymalloc.c *)

\* ALIGN rounding up to the next multiple, a multiple staying as it is
ALIGN_RoundUp(x) ==
    (x + MY_ALIGNMENT_SZ - 1) - ((x + MY_ALIGNMENT_SZ - 1) % MY_ALIGNMENT_SZ)

\* ALIGN without the mask
ALIGN_NoMask(x) == x + MY_ALIGNMENT_SZ

\* ((_x + MY_ALIGNMENT_SZ) & ~(MY_ALIGNMENT_SZ - 1))
ALIGN(x) == (x + MY_ALIGNMENT_SZ) - ((x + MY_ALIGNMENT_SZ) % MY_ALIGNMENT_SZ)

\* the word with the in-use bit cleared / set: w & ~IN_USE_BIT, w | IN_USE_BIT
ClearBit(w) == w - (w % (2 * IN_USE_BIT))

SetBit(w) == ClearBit(w) + IN_USE_BIT

UNSET_INUSE(m, x) == [m EXCEPT ![x] = ClearBit(m[x])]

SET_INUSE(m, x) == [m EXCEPT ![x] = SetBit(m[x])]

IS_INUSE(m, x) == (m[x] % (2 * IN_USE_BIT)) = IN_USE_BIT

NEXT_ADDRESS(m, x) == ClearBit(m[x])

\* (uintptr_t) NEXT_ADDRESS(_x) - (uintptr_t) &_x->start
BLOCK_SIZE(m, x) == NEXT_ADDRESS(m, x) - (x + SZ_BLOCK_METADATA)

\* a store of one header word at address a
Store(m, a, w) == (a :> w) @@ m

\* the header word at a lies inside the arena [start, start + size)
InArena(hh, a) ==
    /\ hh.start_of_heap <= a
    /\ a + SZ_BLOCK_METADATA <= hh.start_of_heap + hh.size

----------------------------------------------------------------------------
(* do_compact *)

\* the for loop of do_compact: the first block from lst on that is in use, or
\* NULL.  The loop changes no memory, so coming back to a block already
\* visited means it never ends.
RECURSIVE compact_last(_, _, _)
compact_last(m, lst, seen) ==
    IF lst = NULL THEN [st |-> "ok", last |-> NULL]
    ELSE IF IS_INUSE(m, lst) THEN [st |-> "ok", last |-> lst]
    ELSE IF lst \in seen THEN [st |-> "hang", last |-> lst]
    ELSE compact_last(m, NEXT_ADDRESS(m, lst), seen \cup {lst})

\* do_compact without its final store
do_compact_NoStore(m, block) ==
    IF block = NULL THEN [st |-> "null", mem |-> m] ELSE [st |-> "ok", mem |-> m]

\* do_compact that absorbs at most the one block that follows
do_compact_OneStep(m, block) ==
    IF block = NULL THEN [st |-> "null", mem |-> m]
    ELSE LET nxt == NEXT_ADDRESS(m, block)
         IN  [st  |-> "ok",
              mem |-> IF nxt # NULL /\ ~IS_INUSE(m, nxt)
                      THEN [m EXCEPT ![block] = NEXT_ADDRESS(m, nxt)]
                      ELSE m]

\* block->hdr.next = last; with block = NULL the store goes through a null
\* pointer
do_compact(m, block) ==
    LET r == compact_last(m, block, {})
    IN  IF r.st = "hang" THEN [st |-> "hang", mem |-> m]
        ELSE IF block = NULL THEN [st |-> "null", mem |-> m]
        ELSE [st |-> "ok", mem |-> [m EXCEPT ![block] = r.last]]

----------------------------------------------------------------------------
(* init_heap *)

EmptyMem == [a \in {} |-> NULL]

NoHeap == [size |-> 0, available_size |-> 0, start_of_heap |-> NULL]

\* base is what sbrk(h->size) returned
init_heap(m, base) ==
    [h   |-> [size |-> HEAP_SIZE, available_size |-> HEAP_SIZE, start_of_heap |-> base],
     mem |-> Store(m, base, NULL)]

----------------------------------------------------------------------------
(* reset_heap *)

\* the for loop of reset_heap; UNSET_INUSE leaves the next addresses alone,
\* so a block reached twice is reached for ever
RECURSIVE unset_all(_, _, _)
unset_all(m, tmp, seen) ==
    IF tmp = NULL THEN [st |-> "ok", mem |-> m]
    ELSE IF tmp \in seen THEN [st |-> "hang", mem |-> m]
    ELSE unset_all(UNSET_INUSE(m, tmp), NEXT_ADDRESS(m, tmp), seen \cup {tmp})

\* reset_heap without the loop that clears the in-use bits
reset_heap_NoUnset(hh, m) == do_compact(m, hh.start_of_heap)

reset_heap(hh, m) ==
    LET u == unset_all(m, hh.start_of_heap, {})
    IN  IF u.st = "hang" THEN u ELSE do_compact(u.mem, hh.start_of_heap)

----------------------------------------------------------------------------
(* mymalloc *)

\* size_t aux_size = ALIGN(size + SZ_BLOCK_METADATA)
Footprint(size) == ALIGN(size + SZ_BLOCK_METADATA)

\* the fit test with > for >=
Fits_Strict(m, tmp, aux) == ULess(aux, BLOCK_SIZE(m, tmp))

\* BLOCK_SIZE(tmp) >= aux_size
Fits(m, tmp, aux) == ULeq(aux, BLOCK_SIZE(m, tmp))

\* the first-fit loop: tmp is the block it stops at (NULL if it runs off the
\* chain).  The loop is deterministic in (memory, tmp), so a pair met twice is
\* met for ever.
RECURSIVE scan(_, _, _, _)
scan(m, tmp, aux, seen) ==
    IF tmp = NULL THEN [st |-> "ok", mem |-> m, tmp |-> NULL]
    ELSE IF <<m, tmp>> \in seen THEN [st |-> "hang", mem |-> m, tmp |-> tmp]
    ELSE IF ~IS_INUSE(m, tmp)
    THEN LET c == do_compact(m, tmp)
         IN  IF c.st # "ok" THEN [st |-> c.st, mem |-> m, tmp |-> tmp]
             ELSE IF Fits(c.mem, tmp, aux)
                  THEN [st |-> "ok", mem |-> c.mem, tmp |-> tmp]
                  ELSE scan(c.mem, NEXT_ADDRESS(c.mem, tmp), aux, seen \cup {<<m, tmp>>})
    ELSE scan(m, NEXT_ADDRESS(m, tmp), aux, seen \cup {<<m, tmp>>})

\* the request compared with the capacity instead of the counter
NotEnoughSpace_Capacity(hh, aux) == ULess(hh.size, aux)

\* aux_size > _h.available_size
NotEnoughSpace(hh, aux) == ULess(hh.available_size, aux)

\* BLOCK_SIZE(tmp) >= aux_size + SZ_BLOCK_METADATA + ALIGN(1)
NeedsSplit(m, tmp, aux) ==
    ULeq(aux + SZ_BLOCK_METADATA + ALIGN(1), BLOCK_SIZE(m, tmp))

\* the three stores of the split, in program order
split(m, tmp, aux) ==
    LET tmp2 == tmp + aux
        m1   == Store(m, tmp2, m[tmp])
        m2   == UNSET_INUSE(m1, tmp2)
    IN  [m2 EXCEPT ![tmp] = tmp2]

\* hand_out with the counter left alone
hand_out_NoCounter(hh, m, tmp, aux) ==
    [h      |-> hh,
     mem    |-> SET_INUSE(m, tmp),
     ret    |-> tmp + SZ_BLOCK_METADATA,
     status |-> "run"]

\* hand_out with the counter charged for the payload only
hand_out_PayloadOnly(hh, m, tmp, aux) ==
    [h      |-> [hh EXCEPT !.available_size = @ - (aux - SZ_BLOCK_METADATA)],
     mem    |-> SET_INUSE(m, tmp),
     ret    |-> tmp + SZ_BLOCK_METADATA,
     status |-> "run"]

\* SET_INUSE, the counter, the return value
hand_out(hh, m, tmp, aux) ==
    [h      |-> [hh EXCEPT !.available_size = @ - aux],
     mem    |-> SET_INUSE(m, tmp),
     ret    |-> tmp + SZ_BLOCK_METADATA,
     status |-> "run"]

Ended(hh, m, how) == [h |-> hh, mem |-> m, ret |-> NULL, status |-> how]

\* The outcomes of mymalloc(size) on heap hh and memory m; base is what sbrk
\* returns if the heap is initialized by this call, ndbg whether assert() is
\* compiled away.  A split whose new header does not lie inside the arena is
\* a store outside the memory obtained from sbrk: it faults or it lands.
mymalloc(hh, m, size, base, ndbg) ==
    LET aux == Footprint(size)
        i   == IF hh.size = 0 THEN init_heap(m, base) ELSE [h |-> hh, mem |-> m]
    IN  IF NotEnoughSpace(i.h, aux)
        THEN {Ended(i.h, i.mem, IF ndbg THEN "run" ELSE "abort")}
        ELSE LET s == scan(i.mem, i.h.start_of_heap, aux, {})
             IN  IF s.st # "ok" THEN {Ended(i.h, s.mem, s.st)}
                 ELSE IF s.tmp = NULL
                 THEN {Ended(i.h, s.mem, IF ndbg THEN "segv" ELSE "abort")}
                 ELSE IF NeedsSplit(s.mem, s.tmp, aux)
                 THEN IF InArena(i.h, s.tmp + aux)
                      THEN {hand_out(i.h, split(s.mem, s.tmp, aux), s.tmp, aux)}
                      ELSE {Ended(i.h, s.mem, "segv"),
                            hand_out(i.h, split(s.mem, s.tmp, aux), s.tmp, aux)}
                 ELSE {hand_out(i.h, s.mem, s.tmp, aux)}

----------------------------------------------------------------------------
(* myfree *)

myfree(m, ptr) ==
    IF ptr = NULL THEN [st |-> "ok", mem |-> m]
    ELSE LET tmp == ptr - SZ_BLOCK_METADATA
         IN  do_compact(UNSET_INUSE(m, tmp), tmp)

----------------------------------------------------------------------------
(* The calls a program makes *)

LivePtrs == {a.p : a \in live}

NoCall == [op |-> "none", arg |-> 0, ret |-> NULL]

NoScn == [n |-> 0, k |-> 0, ptrs |-> <<>>, ret |-> NULL]

Init ==
    /\ h = NoHeap
    /\ mem = EmptyMem
    /\ status = "run"
    /\ NDEBUG \in BOOLEAN
    /\ last = NoCall
    /\ live = {}
    /\ fpsum = 0
    /\ onlyMallocs = TRUE
    /\ nalloc = 0
    /\ phase = "idle"
    /\ scn = NoScn

StatusOf(st) == IF st = "ok" THEN "run" ELSE IF st = "null" THEN "segv" ELSE st

\* a call of mymalloc(n)
MallocCall(n) ==
    /\ status = "run"
    /\ \E base \in (IF h.size = 0 THEN SbrkAddrs ELSE {h.start_of_heap}) :
         \E o \in mymalloc(h, mem, n, base, NDEBUG) :
            LET ok == o.status = "run" /\ o.ret # NULL
            IN  /\ h' = o.h
                /\ mem' = o.mem
                /\ status' = o.status
                /\ last' = [op |-> "mymalloc", arg |-> n, ret |-> o.ret]
                /\ live' = IF ok THEN live \cup {[p |-> o.ret, n |-> n]} ELSE live
                /\ fpsum' = IF ok THEN fpsum + Footprint(n) ELSE fpsum
                /\ nalloc' = IF ok THEN nalloc + 1 ELSE nalloc
    /\ UNCHANGED <<NDEBUG, onlyMallocs>>

\* a call of myfree(p), p NULL or a live pointer
FreeCall(p) ==
    /\ status = "run"
    /\ LET r == myfree(mem, p)
       IN  /\ mem' = r.mem
           /\ status' = StatusOf(r.st)
    /\ last' = [op |-> "myfree", arg |-> p, ret |-> NULL]
    /\ live' = {a \in live : a.p # p}
    /\ onlyMallocs' = FALSE
    /\ UNCHANGED <<h, NDEBUG, fpsum, nalloc>>

\* a call of reset_heap(); it discards the live allocations
ResetCall ==
    /\ status = "run"
    /\ LET r == reset_heap(h, mem)
       IN  /\ mem' = r.mem
           /\ status' = StatusOf(r.st)
           /\ live' = IF r.st = "ok" THEN {} ELSE live
    /\ last' = [op |-> "reset_heap", arg |-> 0, ret |-> NULL]
    /\ onlyMallocs' = FALSE
    /\ UNCHANGED <<h, NDEBUG, fpsum, nalloc>>

Malloc(n) == nalloc < MaxAllocs /\ MallocCall(n) /\ UNCHANGED <<phase, scn>>

Free(p) == FreeCall(p) /\ UNCHANGED <<phase, scn>>

Reset == ResetCall /\ UNCHANGED <<phase, scn>>

Next ==
    \/ \E n \in Sizes : Malloc(n)
    \/ \E p \in LivePtrs \cup {NULL} : Free(p)
    \/ Reset

Spec == Init /\ [][Next]_vars

\* the programs that request only sizes whose footprint does not wrap
NextPlain ==
    \/ \E n \in PlainSizes : Malloc(n)
    \/ \E p \in LivePtrs \cup {NULL} : Free(p)
    \/ Reset

SpecPlain == Init /\ [][NextPlain]_vars

----------------------------------------------------------------------------
(* The reuse scenario of test1: k blocks of n bytes are allocated on a fresh
   heap, all are released in some order, one more block of n bytes is
   allocated *)

\* k footprints and one more fit the capacity
ReuseFits(n, k) == Footprint(n) >= 0 /\ (k + 1) * Footprint(n) <= HEAP_SIZE

InitReuse ==
    /\ h = NoHeap
    /\ mem = EmptyMem
    /\ status = "run"
    /\ NDEBUG \in BOOLEAN
    /\ last = NoCall
    /\ live = {}
    /\ fpsum = 0
    /\ onlyMallocs = TRUE
    /\ nalloc = 0
    /\ phase = "alloc"
    /\ \E n \in Sizes : \E k \in 1..MaxK :
          /\ ReuseFits(n, k)
          /\ scn = [n |-> n, k |-> k, ptrs |-> <<>>, ret |-> NULL]

\* c1 = mymalloc(10); ... the k allocations
ReuseAlloc ==
    /\ phase = "alloc"
    /\ MallocCall(scn.n)
    /\ scn' = [scn EXCEPT !.ptrs = Append(@, last'.ret)]
    /\ phase' = IF Len(scn.ptrs) + 1 = scn.k THEN "free" ELSE "alloc"

\* myfree(c3); myfree(c1); ... in any order
ReuseFree(p) ==
    /\ phase = "free"
    /\ FreeCall(p)
    /\ phase' = IF live' = {} THEN "final" ELSE "free"
    /\ UNCHANGED scn

\* c1 = mymalloc(10): the allocation after the releases
ReuseFinal ==
    /\ phase = "final"
    /\ MallocCall(scn.n)
    /\ scn' = [scn EXCEPT !.ret = last'.ret]
    /\ phase' = "done"

NextReuse ==
    \/ ReuseAlloc
    \/ \E p \in LivePtrs : ReuseFree(p)
    \/ ReuseFinal

SpecReuse == InitReuse /\ [][NextReuse]_vars

----------------------------------------------------------------------------
(* The coalescing scenario of test2: k blocks of n bytes are allocated on a
   fresh heap, cnt address-adjacent ones (the first at position first, the
   last followed by a block still in use) are released in some order, and a
   block whose footprint is the span of the released ones is requested *)

\* the request whose padded footprint is cnt footprints of n
SpanRequest(n, cnt) == cnt * Footprint(n) - SZ_BLOCK_METADATA - MY_ALIGNMENT_SZ

InitCoalesce ==
    /\ h = NoHeap
    /\ mem = EmptyMem
    /\ status = "run"
    /\ NDEBUG \in BOOLEAN
    /\ last = NoCall
    /\ live = {}
    /\ fpsum = 0
    /\ onlyMallocs = TRUE
    /\ nalloc = 0
    /\ phase = "alloc"
    /\ \E n \in PlainSizes : \E k \in 2..MaxK : \E first \in 1..(k - 1) :
          \E cnt \in 1..(k - first) :
             /\ (k + cnt) * Footprint(n) <= HEAP_SIZE
             /\ scn = [n |-> n, k |-> k, first |-> first, cnt |-> cnt,
                       ptrs |-> <<>>, ret |-> NULL]

\* the pointers of the blocks the scenario releases
RunPtrs == {scn.ptrs[i] : i \in scn.first..(scn.first + scn.cnt - 1)}

\* c1 = mymalloc(10); ... the k allocations
CoalAlloc ==
    /\ phase = "alloc"
    /\ MallocCall(scn.n)
    /\ scn' = [scn EXCEPT !.ptrs = Append(@, last'.ret)]
    /\ phase' = IF Len(scn.ptrs) + 1 = scn.k THEN "free" ELSE "alloc"

\* myfree(c3): the releases of the adjacent blocks, in any order
CoalFree(p) ==
    /\ phase = "free"
    /\ p \in RunPtrs
    /\ FreeCall(p)
    /\ phase' = IF RunPtrs \cap {a.p : a \in live'} = {} THEN "final" ELSE "free"
    /\ UNCHANGED scn

\* c3 = mymalloc(20): the request of the released span
CoalFinal ==
    /\ phase = "final"
    /\ MallocCall(SpanRequest(scn.n, scn.cnt))
    /\ scn' = [scn EXCEPT !.ret = last'.ret]
    /\ phase' = "done"

NextCoalesce ==
    \/ CoalAlloc
    \/ \E p \in LivePtrs : CoalFree(p)
    \/ CoalFinal

SpecCoalesce == InitCoalesce /\ [][NextCoalesce]_vars

----------------------------------------------------------------------------
(* One request of n bytes on a fresh heap: the footprint mymalloc computes
   for it shows in the counter and in the header the split writes *)

MaxReq == 40

InitFootprint ==
    /\ h = NoHeap
    /\ mem = EmptyMem
    /\ status = "run"
    /\ NDEBUG \in BOOLEAN
    /\ last = NoCall
    /\ live = {}
    /\ fpsum = 0
    /\ onlyMallocs = TRUE
    /\ nalloc = 0
    /\ phase = "final"
    /\ \E n \in 0..MaxReq : scn = [NoScn EXCEPT !.n = n]

\* mymalloc(n)
FootprintCall ==
    /\ phase = "final"
    /\ MallocCall(scn.n)
    /\ scn' = [scn EXCEPT !.ret = last'.ret]
    /\ phase' = "done"

NextFootprint == FootprintCall

SpecFootprint == InitFootprint /\ [][NextFootprint]_vars

----------------------------------------------------------------------------
(* The shape of the state *)

TypeOK ==
    /\ h \in [size : {0, HEAP_SIZE}, available_size : 0..HEAP_SIZE,
              start_of_heap : SbrkAddrs \cup {NULL}]
    /\ DOMAIN mem \subseteq Int
    /\ status \in {"run", "abort", "segv", "hang"}
    /\ NDEBUG \in BOOLEAN
    /\ last.op \in {"none", "mymalloc", "myfree", "reset_heap"}
    /\ \A a \in live : a.p # NULL
    /\ fpsum \in 0..HEAP_SIZE
    /\ onlyMallocs \in BOOLEAN
    /\ nalloc \in Nat
    /\ phase \in {"idle", "alloc", "free", "final", "done"}

----------------------------------------------------------------------------
(* Notions the properties are stated in *)

\* the block headers reached from a by following next references
RECURSIVE ChainFrom(_, _, _)
ChainFrom(m, a, seen) ==
    IF a = NULL \/ a \in seen THEN seen
    ELSE ChainFrom(m, NEXT_ADDRESS(m, a), seen \cup {a})

\* the chain of the heap
Chain == ChainFrom(mem, h.start_of_heap, {})

ArenaEnd == h.start_of_heap + h.size

Min(S) == CHOOSE x \in S : \A y \in S : x <= y

\* byte x belongs to [a.p, a.p + a.n): its offset from a.p, as an unsigned
\* number, is below a.n
InRange(a, x) == ULess(x - a.p, a.n)

\* two byte ranges meet iff one holds the first byte of the other
Overlap(a, b) ==
    /\ a.n # 0
    /\ b.n # 0
    /\ InRange(a, b.p) \/ InRange(b, a.p)

\* the range of allocation a meets the header word at c
OverlapsHeader(a, c) == Overlap(a, [p |-> c, n |-> SZ_BLOCK_METADATA])

\* the last call was a mymalloc that returned a pointer
Succeeded == last.op = "mymalloc" /\ status = "run" /\ last.ret # NULL

\* the payload of the block whose header is at b: from its first byte to the
\* next header, or to the end of the arena for the terminal block
Payload(b) ==
    (IF NEXT_ADDRESS(mem, b) = NULL THEN ArenaEnd ELSE NEXT_ADDRESS(mem, b))
        - (b + SZ_BLOCK_METADATA)

----------------------------------------------------------------------------
(* C1 *)

\* C1: the byte ranges [p, p+n) of two live allocations never overlap, and
\* no live allocation's range overlaps a block header of the chain.
C1_LiveRangesDisjoint ==
    status = "run" =>
        /\ \A a, b \in live : a # b => ~Overlap(a, b)
        /\ \A a \in live : \A c \in Chain : ~OverlapsHeader(a, c)

----------------------------------------------------------------------------
(* C2 *)

\* n + SZ_BLOCK_METADATA does not wrap modulo 2^64
SumNoWrap(n) == ~(-SZ_BLOCK_METADATA <= n /\ n < 0)

\* C2: a successful mymalloc(n), n + header size not wrapping, returns the
\* address p right after the header of a block of the chain that is now in
\* use, whose payload is at least n bytes, with [p, p+n) inside the arena.
C2_ReturnedBlockHoldsRequest ==
    (Succeeded /\ SumNoWrap(last.arg)) =>
        LET p == last.ret
            b == last.ret - SZ_BLOCK_METADATA
        IN  /\ b \in Chain
            /\ IS_INUSE(mem, b)
            /\ ULeq(last.arg, Payload(b))
            /\ h.start_of_heap <= p
            /\ last.arg >= 0
            /\ p + last.arg <= ArenaEnd

----------------------------------------------------------------------------
(* C3 *)

\* the running sum of footprints, taken as unsigned numbers, stays within the
\* capacity when a request of n bytes is added
SumFits(n) == Footprint(n) >= 0 /\ fpsum + Footprint(n) <= HEAP_SIZE

\* C3: from a fresh heap, in a sequence of mymalloc calls a call succeeds if
\* the running sum of padded footprints stays <= the capacity, and fails if
\* it would take the sum above the capacity.
C3_CapacityBoundedSuccess ==
    [][(onlyMallocs /\ status = "run" /\ last'.op = "mymalloc") =>
          (SumFits(last'.arg) <=> (status' = "run" /\ last'.ret # NULL))]_vars

----------------------------------------------------------------------------
(* C4 *)

\* where the block at b ends: the next header, or the end of the arena
SpanEnd(b) == IF NEXT_ADDRESS(mem, b) = NULL THEN ArenaEnd ELSE NEXT_ADDRESS(mem, b)

\* C4: every header of the chain is at a multiple of 8 from the arena base,
\* every block's span is a multiple of 8, and every returned pointer is a
\* multiple of 8 when the base is.
C4_Aligned ==
    /\ \A b \in Chain : (b - h.start_of_heap) % MY_ALIGNMENT_SZ = 0
    /\ \A b \in Chain : (SpanEnd(b) - b) % MY_ALIGNMENT_SZ = 0
    /\ \A a \in live : (a.p - h.start_of_heap) % MY_ALIGNMENT_SZ = 0
    /\ (Succeeded /\ h.start_of_heap % MY_ALIGNMENT_SZ = 0)
          => last.ret % MY_ALIGNMENT_SZ = 0

\* a 10-byte request served behind two other blocks
C4_Witness ==
    /\ Succeeded
    /\ last.arg = 10
    /\ Cardinality(Chain) >= 4
    /\ last.ret > h.start_of_heap + SZ_BLOCK_METADATA

----------------------------------------------------------------------------
(* C5 *)

\* the step is a call myfree(p) of a live pointer that returned
FreedLive(p) ==
    /\ status = "run"
    /\ p \in LivePtrs
    /\ last'.op = "myfree"
    /\ last'.arg = p
    /\ status' = "run"

\* the in-use blocks that lie behind b on its chain, before the call
InUseBehind(b) == {c \in ChainFrom(mem, b, {}) : c > b /\ IS_INUSE(mem, c)}

\* C5: after myfree(p) of a live p the block at p - header size is free, its
\* next reference is the first in-use block at a higher address (NULL if
\* there is none), and every block at a lower address and every other in-use
\* block is as it was.
C5_FreeCoalescesForward ==
    [][\A p \in LivePtrs : FreedLive(p) =>
          LET b == p - SZ_BLOCK_METADATA
          IN  /\ ~IS_INUSE(mem', b)
              /\ NEXT_ADDRESS(mem', b) =
                    (IF InUseBehind(b) = {} THEN NULL ELSE Min(InUseBehind(b)))
              /\ DOMAIN mem' = DOMAIN mem
              /\ \A c \in DOMAIN mem :
                    (c < b \/ (c # b /\ IS_INUSE(mem, c))) => mem'[c] = mem[c]
              /\ h' = h]_vars

\* a released block that has absorbed two free blocks which were still
\* linked one after the other
C5_Witness ==
    /\ last.op = "myfree"
    /\ last.arg # NULL
    /\ status = "run"
    /\ LET b == last.arg - SZ_BLOCK_METADATA
       IN  /\ ~IS_INUSE(mem, b)
           /\ \E x, y \in DOMAIN mem :
                 /\ b < x /\ x < y /\ y < SpanEnd(b)
                 /\ mem[x] = y
                 /\ ~IS_INUSE(mem, y)

----------------------------------------------------------------------------
(* C6 *)

\* C6: after reset_heap on an initialized heap the chain is one free block at
\* the arena base whose next reference is NULL.
C6_ResetLeavesOneFreeBlock ==
    (last.op = "reset_heap" /\ status = "run" /\ h.size # 0) =>
        /\ Chain = {h.start_of_heap}
        /\ ~IS_INUSE(mem, h.start_of_heap)
        /\ NEXT_ADDRESS(mem, h.start_of_heap) = NULL

\* a reset of a heap of at least four blocks: the headers it dropped from the
\* chain are still linked one after the other
C6_Witness ==
    /\ last.op = "reset_heap"
    /\ status = "run"
    /\ nalloc >= 2
    /\ \E x \in DOMAIN mem \ {h.start_of_heap} :
          /\ mem[x] \in DOMAIN mem \ {NULL}
          /\ mem[mem[x]] \in DOMAIN mem \ {NULL}

----------------------------------------------------------------------------
(* C7 *)

\* C7: a mymalloc(capacity - header size) that immediately follows a
\* reset_heap succeeds.
C7_FullAllocAfterReset ==
    [][(/\ last.op = "reset_heap"
        /\ status = "run"
        /\ h.size # 0
        /\ last'.op = "mymalloc"
        /\ last'.arg = HEAP_SIZE - SZ_BLOCK_METADATA)
          => (status' = "run" /\ last'.ret # NULL)]_vars

----------------------------------------------------------------------------
(* C8 *)

\* the available counter the check of mymalloc reads: the heap is initialized
\* first if it is not yet
CounterAtCheck == IF h.size = 0 THEN HEAP_SIZE ELSE h.available_size

\* C8: a mymalloc whose padded footprint exceeds the available counter fails
\* (NULL, or the assertion) and leaves every header word and the counter as
\* they were; on a heap not yet initialized it leaves the freshly initialized
\* heap.
C8_FailedCallChangesNothing ==
    [][(/\ status = "run"
        /\ last'.op = "mymalloc"
        /\ ULess(CounterAtCheck, Footprint(last'.arg)))
          => /\ last'.ret = NULL
             /\ status' \in {"run", "abort"}
             /\ live' = live
             /\ h.size # 0 => (h' = h /\ mem' = mem)
             /\ h.size = 0 =>
                   /\ h'.size = HEAP_SIZE
                   /\ h'.available_size = HEAP_SIZE
                   /\ h'.start_of_heap \in SbrkAddrs
                   /\ mem' = (h'.start_of_heap :> NULL)]_vars

\* a request refused on a heap that still has room for it: the counter alone
\* says no, and two free blocks the scan would have merged are still apart
C8_Witness ==
    /\ last.op = "mymalloc"
    /\ last.ret = NULL
    /\ status = "run"
    /\ last.arg = 2000
    /\ ULess(h.available_size, Footprint(last.arg))
    /\ \E x \in Chain :
          /\ ~IS_INUSE(mem, x)
          /\ NEXT_ADDRESS(mem, x) # NULL
          /\ ~IS_INUSE(mem, NEXT_ADDRESS(mem, x))

----------------------------------------------------------------------------
(* C9 *)

\* C9: for every size_t n, mymalloc(n) fails or returns a block whose payload
\* is at least n bytes; a request above the capacity never succeeds.
C9_NoSuccessBeyondPayload ==
    Succeeded =>
        /\ ULeq(last.arg, Payload(last.ret - SZ_BLOCK_METADATA))
        /\ ULeq(last.arg, HEAP_SIZE)

----------------------------------------------------------------------------
(* C10 *)

\* C10: after k equal-size allocations on a fresh heap (k + 1 footprints fit
\* the capacity) and the release of all k in any order, a mymalloc of the same
\* size succeeds and returns the lowest of the k addresses.
C10_ReleasedSpaceIsReused ==
    phase = "done" =>
        /\ status = "run"
        /\ scn.ret # NULL
        /\ scn.ret = Min({scn.ptrs[i] : i \in 1..scn.k})

\* test1 with the third block released before the fourth: four 10-byte
\* blocks, and the stale header of the third still points to the fourth
C10_Witness ==
    /\ phase = "done"
    /\ status = "run"
    /\ scn.n = 10
    /\ scn.k = 4
    /\ scn.ret = scn.ptrs[1]
    /\ mem[scn.ptrs[3] - SZ_BLOCK_METADATA] = scn.ptrs[4] - SZ_BLOCK_METADATA

----------------------------------------------------------------------------
(* C11 *)

\* C11: after the release of cnt address-adjacent live blocks, the last one
\* followed by a block in use, a mymalloc whose padded footprint is the span
\* of those blocks succeeds and is served from that span: the block handed
\* out begins at the first released header and ends where the span ends.
C11_SpanRequestServedFromSpan ==
    phase = "done" =>
        /\ Footprint(last.arg) = scn.cnt * Footprint(scn.n)
        /\ status = "run"
        /\ scn.ret # NULL
        /\ scn.ret >= scn.ptrs[scn.first]
        /\ SpanEnd(scn.ret - SZ_BLOCK_METADATA)
              <= scn.ptrs[scn.first + scn.cnt] - SZ_BLOCK_METADATA

----------------------------------------------------------------------------
(* C12 *)

\* C12: the blocks of the chain tile the arena: the first header is at the
\* base, every block ends where the next header begins without overlapping
\* it, and every header, the terminal block's included, lies inside
\* [base, base + capacity).
C12_ChainTilesArena ==
    h.size # 0 =>
        /\ h.start_of_heap \in Chain
        /\ \A b \in Chain : InArena(h, b)
        /\ \A b \in Chain :
              NEXT_ADDRESS(mem, b) # NULL =>
                 NEXT_ADDRESS(mem, b) >= b + SZ_BLOCK_METADATA

----------------------------------------------------------------------------
(* C13 *)

\* C13: the next references from the arena base visit strictly ascending
\* addresses and end at exactly one block whose next reference is NULL, so
\* no scan of the chain runs for ever.
C13_ChainAscendsToNull ==
    h.size # 0 =>
        /\ \A b \in Chain : NEXT_ADDRESS(mem, b) = NULL \/ NEXT_ADDRESS(mem, b) > b
        /\ Cardinality({b \in Chain : NEXT_ADDRESS(mem, b) = NULL}) = 1
        /\ status # "hang"

----------------------------------------------------------------------------
(* C14 *)

\* the step is a mymalloc call that returns a pointer
MallocSucceeds ==
    /\ status = "run"
    /\ last'.op = "mymalloc"
    /\ status' = "run"
    /\ last'.ret # NULL

\* the memory the scan of this call starts from: the heap is initialized
\* first if it is not yet
MemAtScan == IF h.size = 0 THEN (h'.start_of_heap :> NULL) ELSE mem

\* where the free block at c ends once it has absorbed the free blocks behind
\* it: the lowest in-use block behind it, or NULL
CoalescedEnd(m, c) ==
    LET S == {d \in ChainFrom(m, c, {}) : d > c /\ IS_INUSE(m, d)}
    IN  IF S = {} THEN NULL ELSE Min(S)

\* its size then: from its payload start to that header
CoalescedSize(m, c) == CoalescedEnd(m, c) - (c + SZ_BLOCK_METADATA)

\* C14: a successful mymalloc hands out the lowest-addressed free block of
\* the chain whose size after forward coalescing is >= the padded footprint,
\* and afterwards every free block below it is followed by an in-use block.
C14_FirstFit ==
    [][MallocSucceeds =>
          LET b   == last'.ret - SZ_BLOCK_METADATA
              aux == Footprint(last'.arg)
              ch  == ChainFrom(MemAtScan, h'.start_of_heap, {})
          IN  /\ b \in ch
              /\ ~IS_INUSE(MemAtScan, b)
              /\ ULeq(aux, CoalescedSize(MemAtScan, b))
              /\ \A c \in ch :
                    (c < b /\ ~IS_INUSE(MemAtScan, c))
                       => ULess(CoalescedSize(MemAtScan, c), aux)
              /\ \A c \in ChainFrom(mem', h'.start_of_heap, {}) :
                    (c < b /\ ~IS_INUSE(mem', c))
                       => /\ NEXT_ADDRESS(mem', c) # NULL
                          /\ IS_INUSE(mem', NEXT_ADDRESS(mem', c))]_vars

\* a request served behind a free block that is too small for it
C14_Witness ==
    /\ Succeeded
    /\ \E c \in Chain : c < last.ret - SZ_BLOCK_METADATA /\ ~IS_INUSE(mem, c)

----------------------------------------------------------------------------
(* C15 *)

\* C15: on a successful mymalloc the chosen block is split exactly when what
\* is left of it behind the footprint is >= header + 8; the new free header
\* is then at block + footprint with the block's old next, and the block
\* points to it; otherwise the block keeps its next.
C15_SplitRule ==
    [][MallocSucceeds =>
          LET b         == last'.ret - SZ_BLOCK_METADATA
              aux       == Footprint(last'.arg)
              oldnext   == CoalescedEnd(MemAtScan, b)
              remainder == CoalescedSize(MemAtScan, b) - aux
          IN  /\ IS_INUSE(mem', b)
              /\ IF ULeq(SZ_BLOCK_METADATA + MY_ALIGNMENT_SZ, remainder)
                 THEN /\ NEXT_ADDRESS(mem', b) = b + aux
                      /\ b + aux \in DOMAIN mem'
                      /\ mem'[b + aux] = oldnext
                 ELSE NEXT_ADDRESS(mem', b) = oldnext]_vars

----------------------------------------------------------------------------
(* C16 *)

\* C16: for a request of n bytes (no wrap-around) the footprint mymalloc
\* computes is the smallest multiple of 8 strictly greater than n + header
\* size; when n + header size is a multiple of 8 it is n + header size + 8.
C16_FootprintStrictlyAbove ==
    phase = "done" =>
        LET n  == scn.n
            fp == Footprint(n)
        IN  /\ fp % MY_ALIGNMENT_SZ = 0
            /\ fp > n + SZ_BLOCK_METADATA
            /\ fp - MY_ALIGNMENT_SZ <= n + SZ_BLOCK_METADATA
            /\ (n + SZ_BLOCK_METADATA) % MY_ALIGNMENT_SZ = 0
                  => fp = n + SZ_BLOCK_METADATA + MY_ALIGNMENT_SZ
            /\ status = "run"
            /\ scn.ret = h.start_of_heap + SZ_BLOCK_METADATA
            /\ h.available_size = HEAP_SIZE - fp
            /\ NEXT_ADDRESS(mem, h.start_of_heap) = h.start_of_heap + fp

\* a request with n + header size a multiple of 8 has been served
C16_Witness ==
    /\ phase = "done"
    /\ scn.n > 0
    /\ scn.n % MY_ALIGNMENT_SZ = 0
    /\ scn.ret # NULL
    /\ h.available_size = HEAP_SIZE - (scn.n + 2 * SZ_BLOCK_METADATA)

----------------------------------------------------------------------------
(* C17 *)

\* C17: a successful mymalloc lowers the available counter by exactly the
\* padded footprint; myfree, reset_heap and a failed mymalloc leave it as it
\* is; so the counter of the heap is capacity minus the footprints of all
\* successful allocations so far, and it never increases.  (The counter of a
\* heap not yet created is the capacity the call creates it with.)
C17_CounterAccounting ==
    [][status = "run" =>
          /\ MallocSucceeds
                => h'.available_size = CounterAtCheck - Footprint(last'.arg)
          /\ (last'.op = "mymalloc" /\ ~MallocSucceeds)
                => h'.available_size = CounterAtCheck
          /\ last'.op \in {"myfree", "reset_heap"}
                => h'.available_size = h.available_size
          /\ h'.size # 0 => h'.available_size = HEAP_SIZE - fpsum'
          /\ h'.available_size <= CounterAtCheck]_vars

\* after allocations and a reset_heap the counter is still below capacity
C17_Witness ==
    /\ last.op = "reset_heap"
    /\ status = "run"
    /\ fpsum > 0
    /\ h.available_size = HEAP_SIZE - fpsum
    /\ Chain = {h.start_of_heap}

----------------------------------------------------------------------------
(* C18 *)

\* C18: the terminal block (next reference NULL) is always free, so a
\* mymalloc that has passed the counter check finds a block: the assertion
\* behind the scan never fails, and mymalloc(n) succeeds if and only if its
\* padded footprint is <= the available counter.
C18_SucceedsIffCounterAllows ==
    [][(status = "run" /\ last'.op = "mymalloc") =>
          /\ MallocSucceeds <=> ULeq(Footprint(last'.arg), CounterAtCheck)
          /\ status' \in {"run", "abort"}
          /\ status' = "abort" => ULess(CounterAtCheck, Footprint(last'.arg))
          /\ \E b \in Chain' :
                NEXT_ADDRESS(mem', b) = NULL /\ ~IS_INUSE(mem', b)]_vars

----------------------------------------------------------------------------
(* C19 *)

\* C19: the available counter never overstates the untouched tail of the
\* arena: (offset of the terminal block's header from the arena base) +
\* counter <= capacity; so a request that passes the counter check and is
\* carved from the terminal block has its whole footprint inside the arena.
C19_CounterWithinTail ==
    [][/\ h'.size # 0 =>
             \A b \in Chain' :
                NEXT_ADDRESS(mem', b) = NULL
                   => (b - h'.start_of_heap) + h'.available_size <= HEAP_SIZE
       /\ MallocSucceeds =>
             LET b   == last'.ret - SZ_BLOCK_METADATA
                 aux == Footprint(last'.arg)
             IN  CoalescedEnd(MemAtScan, b) = NULL
                    => /\ b >= h'.start_of_heap
                       /\ b + aux <= h'.start_of_heap + HEAP_SIZE]_vars

\* a request carved from the terminal block after a release: the terminal
\* block is behind it and the counter is less than the tail that is left
C19_Witness ==
    /\ Succeeded
    /\ ~onlyMallocs
    /\ LET t == NEXT_ADDRESS(mem, last.ret - SZ_BLOCK_METADATA)
       IN  /\ t # NULL
           /\ InArena(h, t)
           /\ NEXT_ADDRESS(mem, t) = NULL
           /\ t > h.start_of_heap
           /\ (t - h.start_of_heap) + h.available_size < HEAP_SIZE

----------------------------------------------------------------------------
(* C20 *)

\* C20: reset_heap can be called in any state, also before the first
\* mymalloc has initialized the heap, without a store through a null arena
\* base; on an uninitialized heap it leaves the heap (size 0, no arena) as
\* it is.
C20_ResetBeforeInit ==
    [][(status = "run" /\ last'.op = "reset_heap") =>
          /\ status' # "segv"
          /\ h.size = 0 => (status' = "run" /\ h' = NoHeap /\ mem' = EmptyMem)]_vars

====
